---- MODULE Spec2Model ----
(***************************************************************************)
(* A model of the item CRUD service.                                       *)
(*                                                                         *)
(* Two programs live in the repository and are not wired together:         *)
(*   - the gin service started by main (handlers GetItems and CreateItem   *)
(*     over the items table), specification Spec;                          *)
(*   - the generated echo binding layer (ServerInterfaceWrapper and        *)
(*     RegisterHandlersWithBaseURL), specification SpecGen.                *)
(***************************************************************************)
EXTENDS Integers, Sequences, FiniteSets, TLC

VARIABLES
    phase,          \* main: "init", "serving" or "fatal"
    routes,         \* the gin router's table: set of [method, path, handler]
    items_table,    \* the rows of table items, in storage order
    items_id_seq,   \* last value handed out by the SERIAL sequence of items.id
    req,            \* per connection: the request being served and its handler's locals
    created,        \* log: the items returned by the 201 responses, in response order
    nreq,           \* number of requests accepted so far
    echoRoutes,     \* the echo router's table: set of [method, path, handler]
    registered,     \* whether RegisterHandlers has run
    ectx,           \* the echo request in progress: its route, its path parameter, its answer
    calls           \* the ServerInterface methods invoked for the request in progress

svcVars == <<phase, routes, items_table, items_id_seq, req, created, nreq>>
genVars == <<echoRoutes, registered, ectx, calls>>
vars == <<phase, routes, items_table, items_id_seq, req, created, nreq,
          echoRoutes, registered, ectx, calls>>

-----------------------------------------------------------------------------
(* Bounds *)

MaxRequests == 4
MaxSeq == 3
MaxParamLen == 3

\* Two connections are served at a time, each by its own goroutine.
Conns == {1, 2}

-----------------------------------------------------------------------------
(* Values *)

\* A Go pointer field of Item: nil, or a pointer to a string.
Nil == <<>>
Ptr(s) == <<s>>

StatusOK == 200
StatusCreated == 201
StatusBadRequest == 400
StatusNotFound == 404
StatusInternalServerError == 500

Digit == <<"0", "1", "2", "3", "4", "5", "6", "7", "8", "9">>

\* The decimal text Scan writes when it converts an integer column into a string.
RECURSIVE Itoa(_)
Itoa(n) == IF n < 10 THEN Digit[n + 1] ELSE Itoa(n \div 10) \o Digit[(n % 10) + 1]

\* components/schemas/Item: three optional string properties.
Item(id, name, description) == [id |-> id, name |-> name, description |-> description]
NoItem == Item(Nil, Nil, Nil)

\* A request body: text that does not decode (ok = FALSE), or a JSON object
\* with any of the three properties.
Body(ok, it) == [ok |-> ok, item |-> it]
NoBody == Body(FALSE, NoItem)
Bodies ==
    {NoBody,
     Body(TRUE, NoItem),
     Body(TRUE, Item(Nil, Ptr(""), Nil)),
     Body(TRUE, Item(Nil, Ptr("widget"), Ptr("a widget"))),
     Body(TRUE, Item(Ptr("2"), Ptr("gadget"), Nil))}

IdPaths == {<<"items", Itoa(k)>> : k \in 1..MaxSeq}

\* The requests the clients send: the five operations of the API.
Requests ==
    {[method |-> "GET", path |-> <<"items">>, body |-> NoBody]} \cup
    {[method |-> "POST", path |-> <<"items">>, body |-> b] : b \in Bodies} \cup
    {[method |-> "GET", path |-> p, body |-> NoBody] : p \in IdPaths} \cup
    {[method |-> "DELETE", path |-> p, body |-> NoBody] : p \in IdPaths} \cup
    {[method |-> "PUT", path |-> p, body |-> Body(TRUE, Item(Nil, Ptr("gadget"), Nil))] :
        p \in IdPaths}

\* A Go slice of Item: the nil slice, or a slice with elements.
NilSlice == [isNil |-> TRUE, elems |-> <<>>]
GoAppend(s, x) == [isNil |-> FALSE, elems |-> Append(s.elems, x)]

\* The body of a response.
ErrorBody == [kind |-> "error", item |-> NoItem, elems |-> <<>>]
ItemBody(it) == [kind |-> "item", item |-> it, elems |-> <<>>]
TextBody == [kind |-> "text", item |-> NoItem, elems |-> <<>>]

\* encoding/json of a slice: the nil slice is written as null, any other as an array.
JSONSlice(s) ==
    IF s.isNil THEN [kind |-> "null", item |-> NoItem, elems |-> <<>>]
    ELSE [kind |-> "array", item |-> NoItem, elems |-> s.elems]

Response(status, body) == [status |-> status, body |-> body]

\* sql.Rows: the result set, the cursor, the current row, and the error that
\* ended the iteration (rows.Err()).
NoRows == [data |-> <<>>, pos |-> 0, err |-> FALSE]

Idle == [pc |-> "idle", method |-> "GET", path |-> <<"items">>, body |-> NoBody,
         item |-> NoItem, rows |-> NoRows, items |-> NilSlice,
         resp |-> <<>>, nstmt |-> 0, sqlerr |-> FALSE, seen |-> {}]

Range(s) == {s[i] : i \in 1..Len(s)}

-----------------------------------------------------------------------------
(* main *)

\* router.GET("/items", handlers.GetItems); router.POST("/items", handlers.CreateItem)
MainRoutes ==
    {[method |-> "GET", path |-> <<"items">>, handler |-> "GetItems"],
     [method |-> "POST", path |-> <<"items">>, handler |-> "CreateItem"]}

\* db.Connect() then route registration then router.Run; a failed Open or
\* Ping ends the process (log.Fatalf).
Main ==
    /\ phase = "init"
    /\ \E connected \in BOOLEAN :
        IF connected
        THEN /\ phase' = "serving"
             /\ routes' = MainRoutes
        ELSE /\ phase' = "fatal"
             /\ UNCHANGED routes
    /\ UNCHANGED <<items_table, items_id_seq, req, created, nreq, genVars>>

-----------------------------------------------------------------------------
(* the gin router *)

Matching(m, p) == {r \in routes : r.method = m /\ r.path = p}

\* A request arrives on an idle connection and is routed: to the handler of
\* the matching route, or to gin's 404 answer when no route matches.
Request(c) ==
    /\ phase = "serving"
    /\ req[c].pc = "idle"
    /\ nreq < MaxRequests
    /\ \E q \in Requests :
        LET fresh == [Idle EXCEPT !.method = q.method, !.path = q.path,
                                  !.body = q.body, !.seen = Range(created)]
        IN  IF Matching(q.method, q.path) = {}
            THEN req' = [req EXCEPT ![c] =
                     [fresh EXCEPT !.pc = "done",
                                   !.resp = <<Response(StatusNotFound, TextBody)>>]]
            ELSE \E r \in Matching(q.method, q.path) :
                     req' = [req EXCEPT ![c] = [fresh EXCEPT !.pc = r.handler]]
    /\ nreq' = nreq + 1
    /\ UNCHANGED <<phase, routes, items_table, items_id_seq, created, genVars>>

\* The response has been sent; the connection serves the next request.
Complete(c) ==
    /\ req[c].pc = "done"
    /\ req' = [req EXCEPT ![c] = Idle]
    /\ UNCHANGED <<phase, routes, items_table, items_id_seq, created, nreq, genVars>>

-----------------------------------------------------------------------------
(* handlers.GetItems *)

\* One row of the result set as Scan writes it into an Item.
ScanItem(row) == Item(Ptr(Itoa(row.id)), Ptr(row.name), row.description)

\* db.DB.Query("SELECT id, name, description FROM items")
GetItemsQuery(c) ==
    /\ req[c].pc = "GetItems"
    /\ \E failed \in BOOLEAN :
        req' = [req EXCEPT ![c] =
            IF failed
            THEN [@ EXCEPT !.pc = "done", !.nstmt = @ + 1, !.sqlerr = TRUE,
                           !.resp = Append(@, Response(StatusInternalServerError, ErrorBody))]
            ELSE [@ EXCEPT !.pc = "GetItemsLoop", !.nstmt = @ + 1,
                           !.rows = [data |-> items_table, pos |-> 0, err |-> FALSE]]]
    /\ UNCHANGED <<phase, routes, items_table, items_id_seq, created, nreq, genVars>>

\* One turn of  for rows.Next() { Scan; append } : Next is false at the end of
\* the result set or when reading the next row fails (rows.Err() is then set);
\* Scan can fail on the row read.
GetItemsLoop(c) ==
    /\ req[c].pc = "GetItemsLoop"
    /\ LET r == req[c].rows IN
       \/ /\ r.pos = Len(r.data)
          /\ req' = [req EXCEPT ![c].pc = "GetItemsRespond"]
       \/ /\ r.pos < Len(r.data)
          /\ \E outcome \in {"row", "nexterr", "scanerr"} :
              req' = [req EXCEPT ![c] =
                  CASE outcome = "nexterr" ->
                         [@ EXCEPT !.pc = "GetItemsRespond", !.rows.err = TRUE]
                    [] outcome = "scanerr" ->
                         [@ EXCEPT !.pc = "done", !.rows.pos = @ + 1,
                                   !.resp = Append(@, Response(StatusInternalServerError, ErrorBody))]
                    [] OTHER ->
                         [@ EXCEPT !.rows.pos = @ + 1,
                                   !.items = GoAppend(@, ScanItem(r.data[r.pos + 1]))]]
    /\ UNCHANGED <<phase, routes, items_table, items_id_seq, created, nreq, genVars>>

\* c.JSON(http.StatusOK, items)
GetItemsRespond(c) ==
    /\ req[c].pc = "GetItemsRespond"
    /\ req' = [req EXCEPT ![c] =
           [@ EXCEPT !.pc = "done",
                     !.resp = Append(@, Response(StatusOK, JSONSlice(req[c].items)))]]
    /\ UNCHANGED <<phase, routes, items_table, items_id_seq, created, nreq, genVars>>

-----------------------------------------------------------------------------
(* handlers.CreateItem *)

\* CreateItem without the return that follows the 400 answer.
CreateItemBind_NoReturn(c) ==
    /\ req[c].pc = "CreateItem"
    /\ req' = [req EXCEPT ![c] =
           IF ~req[c].body.ok
           THEN [@ EXCEPT !.pc = "CreateItemInsert",
                          !.resp = Append(@, Response(StatusBadRequest, ErrorBody))]
           ELSE [@ EXCEPT !.pc = "CreateItemInsert", !.item = req[c].body.item]]
    /\ UNCHANGED <<phase, routes, items_table, items_id_seq, created, nreq, genVars>>

\* c.ShouldBindJSON(&item): an undecodable body is answered 400 and the
\* handler returns; otherwise the body's properties are the item's fields.
CreateItemBind(c) ==
    /\ req[c].pc = "CreateItem"
    /\ req' = [req EXCEPT ![c] =
           IF ~req[c].body.ok
           THEN [@ EXCEPT !.pc = "done",
                          !.resp = Append(@, Response(StatusBadRequest, ErrorBody))]
           ELSE [@ EXCEPT !.pc = "CreateItemInsert", !.item = req[c].body.item]]
    /\ UNCHANGED <<phase, routes, items_table, items_id_seq, created, nreq, genVars>>

\* An INSERT that also writes the id of the request body.
InsertedRow_BodyId(id, it) ==
    [id |-> IF it.id = Ptr("2") THEN 2 ELSE id, name |-> it.name[1],
     description |-> it.description]

\* The row INSERT INTO items (name, description) VALUES ($1, $2) adds: its id
\* is the sequence's next value, its columns are the statement's arguments.
InsertedRow(id, it) == [id |-> id, name |-> it.name[1], description |-> it.description]

\* QueryRow("INSERT ... RETURNING id", item.Name, item.Description).Scan(&item.Id)
\* The statement is atomic.  It fails when the storage fails and when name is
\* NULL (column name is NOT NULL); a failed statement adds no row, and the
\* sequence may or may not have advanced (nextval is not rolled back).
CreateItemInsert(c) ==
    /\ req[c].pc = "CreateItemInsert"
    /\ items_id_seq < MaxSeq
    /\ LET it == req[c].item
           id == items_id_seq + 1
       IN \E outcome \in {"ok", "failed", "failedAfterNextval"} :
           /\ (it.name = Nil => outcome # "ok")
           /\ IF outcome = "ok"
              THEN /\ items_table' = Append(items_table, InsertedRow(id, it))
                   /\ items_id_seq' = id
                   /\ req' = [req EXCEPT ![c] =
                          [@ EXCEPT !.pc = "CreateItemRespond", !.nstmt = @ + 1,
                                    !.item.id = Ptr(Itoa(id))]]
              ELSE /\ items_table' = items_table
                   /\ items_id_seq' = IF outcome = "failed" THEN items_id_seq ELSE id
                   /\ req' = [req EXCEPT ![c] =
                          [@ EXCEPT !.pc = "CreateItemRespond", !.nstmt = @ + 1,
                                    !.sqlerr = TRUE]]
    /\ UNCHANGED <<phase, routes, created, nreq, genVars>>

\* if err != nil { c.JSON(500, ...); return }; c.JSON(http.StatusCreated, item)
CreateItemRespond(c) ==
    /\ req[c].pc = "CreateItemRespond"
    /\ IF req[c].sqlerr
       THEN /\ req' = [req EXCEPT ![c] =
                   [@ EXCEPT !.pc = "done",
                             !.resp = Append(@, Response(StatusInternalServerError, ErrorBody))]]
            /\ UNCHANGED created
       ELSE /\ req' = [req EXCEPT ![c] =
                   [@ EXCEPT !.pc = "done",
                             !.resp = Append(@, Response(StatusCreated, ItemBody(req[c].item)))]]
            /\ created' = Append(created, req[c].item)
    /\ UNCHANGED <<phase, routes, items_table, items_id_seq, nreq, genVars>>

-----------------------------------------------------------------------------
(* generated/server.go: the echo binding layer *)

\* Path parameters are byte strings; the bytes used are % 4 a z.
ParamChars == {37, 52, 97, 122}
Params == UNION {[1..n -> ParamChars] : n \in 0..MaxParamLen}

BaseURLs == {"", "/api"}
EchoMethods == {"GET", "POST", "PUT", "DELETE", "PATCH"}

IsHex(c) == c \in (48..57) \cup (65..70) \cup (97..102)
UnHex(c) == IF c \in 48..57 THEN c - 48
            ELSE IF c \in 97..102 THEN c - 97 + 10
            ELSE c - 65 + 10

\* url.PathUnescape: every % must be followed by two hex digits ...
RECURSIVE EscapeOk(_)
EscapeOk(s) ==
    IF s = <<>> THEN TRUE
    ELSE IF Head(s) = 37
         THEN /\ Len(s) >= 3
              /\ IsHex(s[2])
              /\ IsHex(s[3])
              /\ EscapeOk(SubSeq(s, 4, Len(s)))
         ELSE EscapeOk(Tail(s))

\* ... and stands for the byte they spell; every other byte stands for itself.
RECURSIVE Unescape(_)
Unescape(s) ==
    IF s = <<>> THEN <<>>
    ELSE IF Head(s) = 37
         THEN <<16 * UnHex(s[2]) + UnHex(s[3])>> \o Unescape(SubSeq(s, 4, Len(s)))
         ELSE <<Head(s)>> \o Unescape(Tail(s))

\* runtime.BindStyledParameterWithLocation("simple", false, "id",
\* runtime.ParamLocationPath, value, &id) for a string id: an empty value and
\* a value that does not unescape are errors.
BindStyledParameterWithLocation(value) ==
    IF value = <<>> \/ ~EscapeOk(value)
    THEN [err |-> TRUE, id |-> <<>>]
    ELSE [err |-> FALSE, id |-> Unescape(value)]

\* What a wrapper method returns to echo.
NilError == [kind |-> "nil", code |-> 0]
HandlerError == [kind |-> "handler", code |-> 0]
NewHTTPError(code) == [kind |-> "http", code |-> code]

EchoIdle == [pc |-> "idle", method |-> "GET", path |-> "", param |-> <<>>, ret |-> NilError]

\* The five router calls of RegisterHandlersWithBaseURL.
RegisteredRoutes(baseURL) ==
    {[method |-> "GET", path |-> baseURL \o "/items", handler |-> "GetItems"],
     [method |-> "POST", path |-> baseURL \o "/items", handler |-> "PostItems"],
     [method |-> "DELETE", path |-> baseURL \o "/items/:id", handler |-> "DeleteItemsId"],
     [method |-> "GET", path |-> baseURL \o "/items/:id", handler |-> "GetItemsId"],
     [method |-> "PUT", path |-> baseURL \o "/items/:id", handler |-> "PutItemsId"]}

RegisterHandlersWithBaseURL(baseURL) ==
    /\ registered = Nil
    /\ echoRoutes' = echoRoutes \cup RegisteredRoutes(baseURL)
    /\ registered' = Ptr(baseURL)
    /\ UNCHANGED <<ectx, calls, svcVars>>

RegisterHandlers == RegisterHandlersWithBaseURL("")

\* The paths requests ask for, written as the route pattern they match, and
\* the value the router gives for :id.
EchoPaths == {b \o "/items" : b \in BaseURLs} \cup {b \o "/items/:id" : b \in BaseURLs}
IdRoutePaths == {b \o "/items/:id" : b \in BaseURLs}

\* echo's router: the handler of the route with the request's method and
\* path; ErrMethodNotAllowed when the path is routed for other methods only;
\* ErrNotFound otherwise.  The server is started once its routes are registered.
EchoRequest ==
    /\ registered # Nil
    /\ ectx.pc = "idle"
    /\ \E m \in EchoMethods, p \in EchoPaths, v \in Params :
        /\ (p \notin IdRoutePaths => v = <<>>)
        /\ LET found == {r \in echoRoutes : r.method = m /\ r.path = p}
               c == [EchoIdle EXCEPT !.method = m, !.path = p, !.param = v]
           IN  IF found # {}
               THEN \E r \in found : ectx' = [c EXCEPT !.pc = r.handler]
               ELSE IF \E r \in echoRoutes : r.path = p
               THEN ectx' = [c EXCEPT !.pc = "done", !.ret = NewHTTPError(405)]
               ELSE ectx' = [c EXCEPT !.pc = "done", !.ret = NewHTTPError(StatusNotFound)]
    /\ calls' = <<>>
    /\ UNCHANGED <<echoRoutes, registered, svcVars>>

\* err = w.Handler.<op>(ctx[, id]); return err.  The handler is whatever
\* implements ServerInterface: it is invoked and returns nil or an error.
Invoke(op, arg) ==
    /\ calls' = Append(calls, [op |-> op, id |-> arg])
    /\ \E failed \in BOOLEAN :
        ectx' = [ectx EXCEPT !.pc = "done",
                             !.ret = IF failed THEN HandlerError ELSE NilError]

InvalidFormat ==
    /\ ectx' = [ectx EXCEPT !.pc = "done", !.ret = NewHTTPError(StatusBadRequest)]
    /\ UNCHANGED calls

WrapperGetItems ==
    /\ ectx.pc = "GetItems"
    /\ Invoke("GetItems", Nil)
    /\ UNCHANGED <<echoRoutes, registered, svcVars>>

WrapperPostItems ==
    /\ ectx.pc = "PostItems"
    /\ Invoke("PostItems", Nil)
    /\ UNCHANGED <<echoRoutes, registered, svcVars>>

WrapperDeleteItemsId ==
    /\ ectx.pc = "DeleteItemsId"
    /\ LET b == BindStyledParameterWithLocation(ectx.param)
       IN  IF b.err THEN InvalidFormat ELSE Invoke("DeleteItemsId", Ptr(b.id))
    /\ UNCHANGED <<echoRoutes, registered, svcVars>>

WrapperGetItemsId ==
    /\ ectx.pc = "GetItemsId"
    /\ LET b == BindStyledParameterWithLocation(ectx.param)
       IN  IF b.err THEN InvalidFormat ELSE Invoke("GetItemsId", Ptr(b.id))
    /\ UNCHANGED <<echoRoutes, registered, svcVars>>

\* PutItemsId without the return that follows a failed bind.
WrapperPutItemsId_NoReturn ==
    /\ ectx.pc = "PutItemsId"
    /\ LET b == BindStyledParameterWithLocation(ectx.param)
       IN  Invoke("PutItemsId", Ptr(b.id))
    /\ UNCHANGED <<echoRoutes, registered, svcVars>>

WrapperPutItemsId ==
    /\ ectx.pc = "PutItemsId"
    /\ LET b == BindStyledParameterWithLocation(ectx.param)
       IN  IF b.err THEN InvalidFormat ELSE Invoke("PutItemsId", Ptr(b.id))
    /\ UNCHANGED <<echoRoutes, registered, svcVars>>

\* echo has written the answer; the next request can come.
EchoComplete ==
    /\ ectx.pc = "done"
    /\ ectx' = EchoIdle
    /\ calls' = <<>>
    /\ UNCHANGED <<echoRoutes, registered, svcVars>>

InitGen ==
    /\ echoRoutes = {}
    /\ registered = Nil
    /\ ectx = EchoIdle
    /\ calls = <<>>

NextGen ==
    \/ RegisterHandlers
    \/ \E b \in BaseURLs : RegisterHandlersWithBaseURL(b)
    \/ EchoRequest
    \/ WrapperGetItems
    \/ WrapperPostItems
    \/ WrapperDeleteItemsId
    \/ WrapperGetItemsId
    \/ WrapperPutItemsId
    \/ EchoComplete

-----------------------------------------------------------------------------
(* the service *)

Init ==
    /\ phase = "init"
    /\ routes = {}
    /\ items_table = <<>>
    /\ items_id_seq = 0
    /\ req = [c \in Conns |-> Idle]
    /\ created = <<>>
    /\ nreq = 0
    /\ InitGen

Next ==
    \/ Main
    \/ \E c \in Conns : Request(c)
    \/ \E c \in Conns : Complete(c)
    \/ \E c \in Conns : GetItemsQuery(c)
    \/ \E c \in Conns : GetItemsLoop(c)
    \/ \E c \in Conns : GetItemsRespond(c)
    \/ \E c \in Conns : CreateItemBind(c)
    \/ \E c \in Conns : CreateItemInsert(c)
    \/ \E c \in Conns : CreateItemRespond(c)

Spec == Init /\ [][Next]_vars

SpecGen == Init /\ [][NextGen]_vars

-----------------------------------------------------------------------------
(* Properties of the service (Spec) *)

Done(c) == req[c].pc = "done"
IsCreate(c) == req[c].method = "POST" /\ req[c].path = <<"items">>
IsList(c) == req[c].method = "GET" /\ req[c].path = <<"items">>
\* The request of connection c is <method> /items/<id> for an item that a
\* create had returned before the request arrived.
OnCreated(c, method, it) ==
    /\ Done(c)
    /\ req[c].method = method
    /\ it \in req[c].seen
    /\ req[c].path = <<"items">> \o it.id
RowWithId(id) == {i \in 1..Len(items_table) : Ptr(Itoa(items_table[i].id)) = id}
Status(c) == req[c].resp[Len(req[c].resp)].status
Payload(c) == req[c].resp[Len(req[c].resp)].body

EmptyName(b) == b.ok /\ b.item.name = Ptr("")

\* C1: a Create whose name is empty is answered 400 (ValidationError) and
\* inserts no row.
C1_EmptyNameRejected ==
    \A c \in Conns :
        (Done(c) /\ IsCreate(c) /\ EmptyName(req[c].body)) =>
            /\ Status(c) = StatusBadRequest
            /\ RowWithId(req[c].item.id) = {}

UniqueIds ==
    \A i, j \in 1..Len(items_table) :
        items_table[i].id = items_table[j].id => i = j
ReturnedIdsDistinct ==
    \A i, j \in 1..Len(created) : created[i].id = created[j].id => i = j
IdChosenByStorage ==
    /\ \A i \in 1..Len(items_table) : items_table[i].id \in 1..items_id_seq
    /\ \A c \in Conns :
        (Done(c) /\ IsCreate(c) /\ Status(c) = StatusCreated) =>
            /\ Payload(c).kind = "item"
            /\ \E i \in 1..Len(items_table) :
                /\ Payload(c).item.id = Ptr(Itoa(items_table[i].id))
                /\ Ptr(items_table[i].name) = req[c].body.item.name
                /\ items_table[i].description = req[c].body.item.description
IdsStable ==
    \A i \in 1..Len(items_table) :
        /\ i <= Len(items_table')
        /\ items_table'[i].id = items_table[i].id

\* C2: no two rows share an id and a row keeps its id; the id a Create
\* returns is the one storage drew from the sequence for the row it inserted
\* (not the id of the request body), and no two Creates return the same id,
\* concurrent or not.
C2_IdsUniqueAndStable ==
    /\ [](UniqueIds /\ ReturnedIdsDistinct /\ IdChosenByStorage)
    /\ [][IdsStable]_vars

\* Two creates in flight at once, both inserted and neither answered yet, one
\* of them sent with an id in its body.
C2_Witness ==
    /\ \A c \in Conns : req[c].pc = "CreateItemRespond" /\ ~req[c].sqlerr
    /\ \E c \in Conns : req[c].body.item.id = Ptr("2")
    /\ req[1].item.id # req[2].item.id

\* C3: a List that arrives after N creates have returned and answers 200
\* carries at least N entries, among them every item those creates returned.
C3_ListHasAllCreated ==
    \A c \in Conns :
        (Done(c) /\ IsList(c) /\ Status(c) = StatusOK) =>
            /\ Len(Payload(c).elems) >= Cardinality(req[c].seen)
            /\ \A it \in req[c].seen : it \in Range(Payload(c).elems)

\* C4: a List that selected no row and answers 200 carries an array of
\* length 0, not null.
C4_EmptyListIsArray ==
    \A c \in Conns :
        (Done(c) /\ IsList(c) /\ Status(c) = StatusOK /\ req[c].rows.data = <<>>) =>
            /\ Payload(c).kind = "array"
            /\ Payload(c).elems = <<>>

\* C5: GET /items/{id} with the id a Create returned answers 200 with the
\* item of the create response.
C5_GetByIdRoundTrip ==
    \A c \in Conns : \A it \in req[c].seen :
        OnCreated(c, "GET", it) =>
            req[c].resp = <<Response(StatusOK, ItemBody(it))>>

\* C6: DELETE /items/{id} of an existing item answers 204 and removes its row.
C6_DeleteRemoves ==
    \A c \in Conns : \A it \in req[c].seen :
        OnCreated(c, "DELETE", it) =>
            /\ Status(c) = 204
            /\ RowWithId(it.id) = {}

\* C7: PUT /items/{id} of an existing item answers 200 and the row then has
\* the name and description of the request.
C7_UpdateOverwrites ==
    \A c \in Conns : \A it \in req[c].seen :
        OnCreated(c, "PUT", it) =>
            /\ Status(c) = StatusOK
            /\ \A i \in RowWithId(it.id) :
                /\ Ptr(items_table[i].name) = req[c].body.item.name
                /\ items_table[i].description = req[c].body.item.description

\* C8: a List answers 200 only when every row its statement selected was
\* read: the iteration did not end on an error and no row is missing.
C8_ListOkOnlyIfComplete ==
    \A c \in Conns :
        (Done(c) /\ IsList(c) /\ Status(c) = StatusOK) =>
            /\ ~req[c].rows.err
            /\ Len(Payload(c).elems) = Len(req[c].rows.data)

CreateAnswered(c) ==
    /\ Len(req[c].resp) = 1
    /\ IF ~req[c].body.ok
       THEN /\ req[c].resp[1] = Response(StatusBadRequest, ErrorBody)
            /\ req[c].nstmt = 0
       ELSE IF req[c].sqlerr
       THEN /\ req[c].resp[1] = Response(StatusInternalServerError, ErrorBody)
            /\ req[c].nstmt = 1
       ELSE /\ req[c].resp[1].status = StatusCreated
            /\ req[c].resp[1].body.kind = "item"
            /\ req[c].resp[1].body.item.name = req[c].body.item.name
            /\ req[c].resp[1].body.item.description = req[c].body.item.description
            /\ req[c].nstmt = 1
            /\ \E i \in 1..Len(items_table) :
                ScanItem(items_table[i]) = req[c].resp[1].body.item
CreateInFlight(c) ==
    /\ req[c].nstmt <= 1
    /\ Len(req[c].resp) <= 1
    /\ (Done(c) => CreateAnswered(c))
\* The table changes only in a step in which one create's INSERT succeeds,
\* and then by exactly one row added after the existing ones.
OnlyInsertChangesTable ==
    items_table' # items_table =>
        \E c \in Conns :
            /\ req[c].pc = "CreateItemInsert"
            /\ req[c].body.ok
            /\ req'[c].pc = "CreateItemRespond"
            /\ ~req'[c].sqlerr
            /\ req'[c].nstmt = 1
            /\ Len(items_table') = Len(items_table) + 1
            /\ SubSeq(items_table', 1, Len(items_table)) = items_table
            /\ ScanItem(items_table'[Len(items_table')]) = req'[c].item

-----------------------------------------------------------------------------
(* Properties of the binding layer (SpecGen) *)

\* The operation the API gives each method and path under base b.
OperationOf(b) ==
    {<<"GET", b \o "/items", "GetItems">>,
     <<"POST", b \o "/items", "PostItems">>,
     <<"DELETE", b \o "/items/:id", "DeleteItemsId">>,
     <<"GET", b \o "/items/:id", "GetItemsId">>,
     <<"PUT", b \o "/items/:id", "PutItemsId">>}
Operation(b) == {o \in OperationOf(b) : o[1] = ectx.method /\ o[2] = ectx.path}
FiveRoutes ==
    registered # Nil =>
        /\ Cardinality(echoRoutes) = 5
        /\ echoRoutes = {[method |-> o[1], path |-> o[2], handler |-> o[3]] :
                            o \in OperationOf(registered[1])}
DispatchedOnce ==
    ectx.pc = "done" =>
        /\ Len(calls) <= 1
        /\ IF registered = Nil \/ Operation(registered[1]) = {}
           THEN calls = <<>> /\ ectx.ret.kind = "http"
           ELSE \A o \in Operation(registered[1]) :
                IF ectx.path \notin IdRoutePaths
                THEN calls = <<[op |-> o[3], id |-> Nil]>>
                ELSE IF ectx.param = <<>> \/ ~EscapeOk(ectx.param)
                THEN calls = <<>> /\ ectx.ret = NewHTTPError(StatusBadRequest)
                ELSE calls = <<[op |-> o[3], id |-> Ptr(Unescape(ectx.param))]>>

\* C10: RegisterHandlersWithBaseURL registers exactly the five routes of the
\* API, each on the wrapper of its own operation; a request reaches the
\* handler at most once, for an id route only with the id that was bound, and
\* a request whose id does not bind is answered 400 and reaches no handler.
C10_FiveRoutesBoundOnce == FiveRoutes /\ DispatchedOnce

\* PUT /api/items/%4a reached PutItemsId with the id J.
C10_Witness ==
    /\ ectx.pc = "done"
    /\ ectx.path = "/api/items/:id"
    /\ ectx.param = <<37, 52, 97>>
    /\ calls = <<[op |-> "PutItemsId", id |-> Ptr(<<74>>)]>>

====
